---- MODULE Spec2Model ----
(***************************************************************************)
(* Client state machine of the AI-stylist app (React Native App component) *)
(* together with the backend records its handlers read and write.          *)
(*                                                                         *)
(* Every async handler is split at its awaits: the part up to the request  *)
(* is one action (it captures the state values of the render it was        *)
(* created in, as a JavaScript closure does), the part after the response  *)
(* is another.  useEffect bodies run in the action that changes one of     *)
(* their dependencies.                                                     *)
(***************************************************************************)
EXTENDS Integers, Sequences, FiniteSets, TLC

\* ---------------------------------------------------------------- bounds
MaxWardrobe == 3
MaxLoads == 1
MaxChat == 4
MaxChunks == 2
MaxWeek == 1
MaxPlanned == 2
MaxClock == 732

\* ------------------------------------------------------ program constants
MinOutfitItems == 2
SessionThreshold == 5
DaysPerWeek == 7
MinutesPerDay == 1440

\* ------------------------------------------------------------ value sets
Users == {"u1", "u2"}
NoToken == "none"
GoodPassword == "pw"
Tabs == {"chat", "wardrobe", "validate", "planner"}
NoCategory == "none"
Categories == {NoCategory, "Tops", "Jeans", "Other"}
AllFilter == "all"
OtherCategory == "Other"

\* interface User: the fields the client reads, as presence flags
NoUser == [id |-> "none", name |-> FALSE, age |-> FALSE, profession |-> FALSE,
           body_shape |-> FALSE, skin_tone |-> FALSE, onboarding_completed |-> FALSE]

FullUser(u) == [id |-> u, name |-> TRUE, age |-> TRUE, profession |-> TRUE,
                body_shape |-> TRUE, skin_tone |-> TRUE, onboarding_completed |-> TRUE]

NewUser(u) == [id |-> u, name |-> TRUE, age |-> FALSE, profession |-> FALSE,
               body_shape |-> FALSE, skin_tone |-> FALSE, onboarding_completed |-> FALSE]

Idle == [pc |-> "idle"]
NoAlert == [src |-> "none", tok |-> NoToken]

VARIABLES
  \* ---- React state (useState)
  user, token, currentTab, loading, showOnboarding,
  isLogin, email, password, name, debugError,
  wardrobe, generatedOutfits, outfitsLoading, wardrobeTab, selectedCategoryFilter,
  lastValidation, showManualOutfitBuilder,
  chatMessages, chatInput, chatImage,
  selectedWeek, weeklyOutfits, selectedOutfit, selectedOutfitDate, outfitOccasion, outfitEvent,
  onboardingData,
  \* ---- AsyncStorage
  storage,
  \* ---- device clock and time zone
  now, tz,
  \* ---- backend records
  beAccounts, beUsers, beWardrobe, beOutfits, beChat, bePlanned, nextId,
  \* ---- handlers suspended at an await
  authReq, wardrobeLoads, outfitsReq, addReq, delReq, validateReq, extractAlert, extractReq,
  sendReq, freshReq, histLoads, plannedLoads, saveReq, reopen, onboardReq

authVars == <<user, token, loading, showOnboarding, isLogin, email, password, name, debugError,
              storage, authReq>>
tabVars == <<currentTab>>
wardrobeVars == <<wardrobe, generatedOutfits, outfitsLoading, wardrobeTab, selectedCategoryFilter,
                  lastValidation, wardrobeLoads, outfitsReq, addReq, delReq, validateReq,
                  extractAlert, extractReq>>
chatVars == <<chatMessages, chatInput, chatImage, sendReq, freshReq, histLoads>>
plannerVars == <<selectedWeek, weeklyOutfits, selectedOutfit, selectedOutfitDate, outfitOccasion,
                 outfitEvent, showManualOutfitBuilder, plannedLoads, saveReq>>
miscVars == <<onboardingData, now, tz, reopen, onboardReq>>
beVars == <<beAccounts, beUsers, beWardrobe, beOutfits, beChat, bePlanned, nextId>>

vars == <<authVars, tabVars, wardrobeVars, chatVars, plannerVars, miscVars, beVars>>

\* ------------------------------------------------------------- helpers
LoggedIn == user.id # "none"
MainApp == LoggedIn /\ ~showOnboarding
TokenOk(tok) == tok \in beAccounts

SeqRange(s) == {s[i] : i \in 1..Len(s)}

RemoveAt(s, i) == [j \in 1..(Len(s) - 1) |-> IF j < i THEN s[j] ELSE s[j + 1]]

Ids(items) == {items[i].id : i \in 1..Len(items)}

\* ------------------------------------------------- planner date utilities
\* A Date is an instant, kept as the local calendar day (day 0 is a Sunday)
\* and the local minute of that day.
\* getWeekDates: the Sunday of today's week moved by weekOffset weeks, then
\* seven setDate(+i) copies, all at the current local time of day.
getWeekDates(weekOffset) ==
  LET startOfWeek == now.day - (now.day % DaysPerWeek) + (weekOffset * DaysPerWeek)
  IN  [i \in 1..DaysPerWeek |-> [day |-> startOfWeek + (i - 1), minute |-> now.minute]]

\* formatDate: date.toISOString().split('T')[0], the calendar day in UTC
formatDate(date) == ((date.day * MinutesPerDay) + date.minute - tz) \div MinutesPerDay

\* getDayName / formatCardDate: getDay(), getDate() read the local calendar day
formatCardDate(date) == date.day

\* ------------------------------------------------------------- useEffect
\* onboarding_completed is not looked at
NeedsOnboardingFieldsOnly(u) ==
  ~u.name \/ ~u.age \/ ~u.profession \/ ~u.body_shape \/ ~u.skin_tone

\* useEffect([user]): needsOnboarding
NeedsOnboarding(u) ==
  ~u.onboarding_completed
    /\ (~u.name \/ ~u.age \/ ~u.profession \/ ~u.body_shape \/ ~u.skin_tone)

\* initializeChatSession: the greeting message
\* A message id is <<prefix, n>>: 'greeting-'/'loading-'/'typing-' + Date.now(),
\* a bare Date.now() + n (<<"ts", n>>) or an id issued by the backend (<<"srv", n>>).
Greeting(u) == [id |-> <<"greeting-", 0>>, user_id |-> u.id, is_user |-> FALSE,
                message |-> "greeting"]

\* loadPlannedOutfits up to its fetch: the closure's token, wardrobe and
\* selectedWeek, and the query range computed from getWeekDates
PlannedCall(tok, wsnap, week) ==
  LET weekDates == getWeekDates(week)
  IN  [tok |-> tok, wardrobe |-> wsnap, week |-> week,
       start_date |-> formatDate(weekDates[1]),
       end_date |-> formatDate(weekDates[DaysPerWeek])]

CanLoad == Len(wardrobeLoads) < MaxLoads /\ Len(plannedLoads) < MaxLoads /\ Len(histLoads) < MaxLoads

\* useEffect([user, token, currentTab]) and useEffect([user, token, currentTab,
\* selectedWeek]) run for user u, token tok, tab and week; baseLoading is the
\* value the handler itself left in loading.
LoadEffects(u, tok, tab, wsnap, week, baseLoading) ==
  LET active == u.id # "none" /\ tok # NoToken
      callsLoadWardrobe == active /\ tab \in {"wardrobe", "planner"}
  IN  /\ wardrobeLoads' = IF callsLoadWardrobe THEN Append(wardrobeLoads, tok) ELSE wardrobeLoads
      /\ loading' = IF callsLoadWardrobe THEN TRUE ELSE baseLoading
      /\ plannedLoads' = IF active /\ tab = "planner"
                           THEN Append(plannedLoads, PlannedCall(tok, wsnap, week))
                           ELSE plannedLoads

\* useEffect([user]) twice: the onboarding decision and the greeting
UserEffects(u, msgs) ==
  /\ showOnboarding' = IF u.id # "none" THEN NeedsOnboarding(u) ELSE showOnboarding
  /\ chatMessages' = IF u.id # "none" /\ Len(msgs) = 0 THEN <<Greeting(u)>> ELSE msgs

\* ------------------------------------------------------------------ Init
InitWith(days, minutes, zones, profiles, items, plans) ==
  /\ user = NoUser /\ token = NoToken /\ currentTab = "chat" /\ loading = FALSE
  /\ showOnboarding = FALSE
  /\ isLogin = TRUE /\ email = "" /\ password = "" /\ name = "" /\ debugError = ""
  /\ wardrobe = <<>> /\ generatedOutfits = <<>> /\ outfitsLoading = FALSE
  /\ wardrobeTab = "items" /\ selectedCategoryFilter = AllFilter
  /\ lastValidation = "none" /\ showManualOutfitBuilder = FALSE
  /\ chatMessages = <<>> /\ chatInput = "" /\ chatImage = FALSE
  /\ selectedWeek = 0 /\ weeklyOutfits = <<>>
  /\ selectedOutfit = [top |-> 0, bottom |-> 0, layering |-> 0, shoes |-> 0]
  /\ selectedOutfitDate = -1 /\ outfitOccasion = "" /\ outfitEvent = ""
  /\ onboardingData = NoUser
  /\ storage = [token |-> NoToken, lastSessionTime |-> -1]
  /\ now \in [day : days, minute : minutes] /\ tz \in zones
  /\ beAccounts = {"u1"}
  /\ \E p \in profiles : beUsers = [u \in Users |-> [p EXCEPT !.id = u]]
  /\ beWardrobe = [u \in Users |-> IF u \in beAccounts THEN items ELSE <<>>]
  /\ beOutfits = [u \in Users |-> <<>>]
  /\ beChat = [u \in Users |-> <<>>]
  /\ \E plan \in plans : bePlanned = [u \in Users |-> IF u \in beAccounts THEN plan ELSE <<>>]
  /\ nextId = Len(items) + 1
  /\ authReq = Idle /\ wardrobeLoads = <<>> /\ outfitsReq = Idle /\ addReq = Idle
  /\ delReq = Idle /\ validateReq = Idle /\ extractAlert = NoAlert /\ extractReq = Idle
  /\ sendReq = Idle /\ freshReq = Idle /\ histLoads = <<>> /\ plannedLoads = <<>>
  /\ saveReq = Idle /\ reopen = Idle /\ onboardReq = Idle

\* ------------------------------------------------------------ auth form
SetEmail(e) ==
  /\ ~LoggedIn /\ email # e
  /\ email' = e
  /\ UNCHANGED <<user, token, loading, showOnboarding, isLogin, password, name, debugError,
                 storage, authReq, tabVars, wardrobeVars, chatVars, plannerVars, miscVars, beVars>>

SetPassword(p) ==
  /\ ~LoggedIn /\ password # p
  /\ password' = p
  /\ UNCHANGED <<user, token, loading, showOnboarding, isLogin, email, name, debugError,
                 storage, authReq, tabVars, wardrobeVars, chatVars, plannerVars, miscVars, beVars>>

SetName(n) ==
  /\ ~LoggedIn /\ ~isLogin /\ name # n
  /\ name' = n
  /\ UNCHANGED <<user, token, loading, showOnboarding, isLogin, email, password, debugError,
                 storage, authReq, tabVars, wardrobeVars, chatVars, plannerVars, miscVars, beVars>>

SetIsLogin(b) ==
  /\ ~LoggedIn /\ isLogin # b
  /\ isLogin' = b
  /\ UNCHANGED <<user, token, loading, showOnboarding, email, password, name, debugError,
                 storage, authReq, tabVars, wardrobeVars, chatVars, plannerVars, miscVars, beVars>>

\* the name is not looked at
AuthFormErrorWithoutName ==
  IF email = "" \/ password = "" THEN "Please fill in all fields" ELSE ""

\* the two validations of handleAuth: the error message, '' when the form passes
AuthFormError ==
  IF email = "" \/ password = ""
    THEN "Please fill in all fields"
    ELSE IF ~isLogin /\ name = "" THEN "Name is required for signup" ELSE ""

\* handleAuth up to the fetch: the two validations return before any request
HandleAuthStart ==
  /\ ~LoggedIn /\ ~loading /\ authReq.pc = "idle"
  /\ debugError' = AuthFormError
  /\ IF AuthFormError # ""
       THEN UNCHANGED <<authReq, loading>>
       ELSE /\ loading' = TRUE
            /\ authReq' = [pc |-> "sent", isLogin |-> isLogin, email |-> email,
                           password |-> password, name |-> name]
  /\ UNCHANGED <<user, token, showOnboarding, isLogin, email, password, name, storage,
                 tabVars, wardrobeVars, chatVars, plannerVars, miscVars, beVars>>

\* the backend's answer to /api/auth/login and /api/auth/register
AuthAccepts(req) ==
  IF req.isLogin
    THEN req.email \in beAccounts /\ req.password = GoodPassword
    ELSE req.email \in Users \ beAccounts

\* handleAuth after the fetch: response.ok, a failed response, or a throw
AuthResponse(networkError) ==
  /\ authReq.pc = "sent"
  /\ authReq' = Idle
  /\ IF ~networkError /\ AuthAccepts(authReq)
       THEN LET u == IF authReq.isLogin THEN beUsers[authReq.email] ELSE NewUser(authReq.email)
                tok == authReq.email
            IN  /\ CanLoad
                /\ beAccounts' = beAccounts \cup {authReq.email}
                /\ beUsers' = [beUsers EXCEPT ![authReq.email] = u]
                /\ storage' = [storage EXCEPT !.token = tok]
                /\ token' = tok
                /\ user' = u
                /\ email' = "" /\ password' = "" /\ name' = ""
                /\ debugError' = "SUCCESS! Login completed"
                /\ UserEffects(u, chatMessages)
                /\ LoadEffects(u, tok, currentTab, wardrobe, selectedWeek, FALSE)
       ELSE /\ debugError' = IF networkError THEN "Network error" ELSE "ERROR"
            /\ loading' = FALSE
            /\ UNCHANGED <<user, token, showOnboarding, email, password, name, storage,
                           beAccounts, beUsers, chatMessages, wardrobeLoads, plannedLoads>>
  /\ UNCHANGED <<isLogin, tabVars, wardrobe, generatedOutfits, outfitsLoading, wardrobeTab,
                 selectedCategoryFilter, lastValidation, outfitsReq, addReq, delReq,
                 validateReq, extractAlert, extractReq, chatInput, chatImage, sendReq, freshReq,
                 histLoads, selectedWeek, weeklyOutfits, selectedOutfit, selectedOutfitDate,
                 outfitOccasion, outfitEvent, showManualOutfitBuilder, saveReq, miscVars,
                 beWardrobe, beOutfits, beChat, bePlanned, nextId>>

\* logout (Sign Out in the profile settings)
Logout ==
  /\ MainApp
  /\ storage' = [storage EXCEPT !.token = NoToken]
  /\ user' = NoUser /\ token' = NoToken
  /\ currentTab' = "chat"
  /\ showOnboarding' = FALSE
  /\ UNCHANGED <<loading, isLogin, email, password, name, debugError, authReq,
                 wardrobeVars, chatVars, plannerVars, miscVars, beVars>>

\* loadChatHistory up to its fetch, called with the closure's token
HistCall(loads, tok) == IF tok = NoToken THEN loads ELSE Append(loads, tok)

\* a tab of the tab bar is pressed; the effects that depend on currentTab run
SetCurrentTab(t) ==
  /\ MainApp /\ ~showManualOutfitBuilder /\ t # currentTab /\ CanLoad
  /\ currentTab' = t
  /\ histLoads' = IF t = "chat" /\ Len(chatMessages) = 0
                    THEN HistCall(histLoads, token) ELSE histLoads
  /\ LoadEffects(user, token, t, wardrobe, selectedWeek, loading)
  /\ UNCHANGED <<user, token, showOnboarding, isLogin, email, password, name, debugError,
                 storage, authReq, wardrobe, generatedOutfits, outfitsLoading, wardrobeTab,
                 selectedCategoryFilter, lastValidation, outfitsReq, addReq, delReq,
                 validateReq, extractAlert, extractReq, chatMessages, chatInput, chatImage,
                 sendReq, freshReq, selectedWeek, weeklyOutfits, selectedOutfit,
                 selectedOutfitDate, outfitOccasion, outfitEvent, showManualOutfitBuilder,
                 saveReq, miscVars, beVars>>


\* ------------------------------------------------------- wardrobe display
\* the category read without the 'Other' fallback
CategoryKeyNoFallback(item) == item.category

\* item.category || 'Other'
CategoryKey(item) == IF item.category = NoCategory THEN OtherCategory ELSE item.category

EmptyGroups == [c \in {} |-> <<>>]

\* the forEach of getGroupedWardrobe from item i on
RECURSIVE GroupFrom(_, _, _)
GroupFrom(items, i, grouped) ==
  IF i > Len(items)
    THEN grouped
    ELSE LET category == CategoryKey(items[i])
             g == IF category \in DOMAIN grouped THEN grouped
                  ELSE [c \in (DOMAIN grouped) \cup {category} |->
                          IF c = category THEN <<>> ELSE grouped[c]]
         IN  GroupFrom(items, i + 1, [g EXCEPT ![category] = Append(@, items[i])])

getGroupedWardrobe == GroupFrom(wardrobe, 1, EmptyGroups)

\* the category names in the order Array.prototype.sort gives them
SortedCategoryNames == <<"Jeans", "Other", "Tops">>

\* getAvailableCategories: Array.from(new Set(...)).sort()
getAvailableCategories ==
  LET categories == {CategoryKey(wardrobe[i]) : i \in 1..Len(wardrobe)}
  IN  SelectSeq(SortedCategoryNames, LAMBDA c : c \in categories)

getFilteredWardrobe ==
  IF selectedCategoryFilter = AllFilter
    THEN getGroupedWardrobe
    ELSE LET allGrouped == getGroupedWardrobe
         IN  IF selectedCategoryFilter \in DOMAIN allGrouped
               THEN [c \in {selectedCategoryFilter} |-> allGrouped[c]]
               ELSE EmptyGroups

\* a category chip or the All chip of the wardrobe tab is pressed
SetSelectedCategoryFilter(c) ==
  /\ MainApp /\ currentTab = "wardrobe" /\ c # selectedCategoryFilter
  /\ c \in {AllFilter} \cup SeqRange(getAvailableCategories)
  /\ selectedCategoryFilter' = c
  /\ UNCHANGED <<authVars, tabVars, wardrobe, generatedOutfits, outfitsLoading, wardrobeTab,
                 lastValidation, wardrobeLoads, outfitsReq, addReq, delReq, validateReq,
                 extractAlert, extractReq, chatVars, plannerVars, miscVars, beVars>>

\* ---------------------------------------------------------- loadWardrobe
\* loadWardrobe after its fetch; the call itself is LoadCall
LoadCall(loads, tok) == IF tok = NoToken THEN loads ELSE Append(loads, tok)

WardrobeResponse(i, failed) ==
  /\ i \in 1..Len(wardrobeLoads)
  /\ wardrobeLoads' = RemoveAt(wardrobeLoads, i)
  /\ loading' = FALSE
  /\ LET tok == wardrobeLoads[i]
     IN  IF failed
           THEN UNCHANGED <<wardrobe, storage, token, user>>
           ELSE IF TokenOk(tok)
             THEN /\ wardrobe' = beWardrobe[tok]
                  /\ UNCHANGED <<storage, token, user>>
             ELSE /\ storage' = [storage EXCEPT !.token = NoToken]
                  /\ token' = NoToken /\ user' = NoUser
                  /\ UNCHANGED wardrobe
  /\ UNCHANGED <<showOnboarding, isLogin, email, password, name, debugError, authReq, tabVars,
                 generatedOutfits, outfitsLoading, wardrobeTab, selectedCategoryFilter,
                 lastValidation, outfitsReq, addReq, delReq, validateReq, extractAlert,
                 extractReq, chatVars, plannerVars, miscVars, beVars>>

\* ------------------------------------------------------------ loadOutfits
\* GET /api/wardrobe/outfits: saved outfits are returned, otherwise outfits
\* are generated from the wardrobe and saved
GenerateOutfits(items) ==
  IF Len(items) >= MinOutfitItems
    THEN <<[occasion |-> "Casual", items |-> Ids(items)]>>
    ELSE <<>>

\* the Outfits sub-tab: setWardrobeTab('outfits') and, with nothing cached
\* and nothing loading, loadOutfits up to its fetch
ShowOutfitsTab ==
  /\ MainApp /\ currentTab = "wardrobe" /\ wardrobeTab # "outfits"
  /\ wardrobeTab' = "outfits"
  /\ IF Len(generatedOutfits) = 0 /\ ~outfitsLoading /\ token # NoToken
       THEN /\ outfitsLoading' = TRUE
            /\ outfitsReq' = [pc |-> "sent", tok |-> token]
       ELSE UNCHANGED <<outfitsLoading, outfitsReq>>
  /\ UNCHANGED <<authVars, tabVars, wardrobe, generatedOutfits, selectedCategoryFilter,
                 lastValidation, wardrobeLoads, addReq, delReq, validateReq, extractAlert,
                 extractReq, chatVars, plannerVars, miscVars, beVars>>

ShowItemsTab ==
  /\ MainApp /\ currentTab = "wardrobe" /\ wardrobeTab # "items"
  /\ wardrobeTab' = "items"
  /\ UNCHANGED <<authVars, tabVars, wardrobe, generatedOutfits, outfitsLoading,
                 selectedCategoryFilter, lastValidation, wardrobeLoads, outfitsReq, addReq,
                 delReq, validateReq, extractAlert, extractReq, chatVars, plannerVars,
                 miscVars, beVars>>

\* the backend handles the outfits request
OutfitsServe ==
  /\ outfitsReq.pc = "sent"
  /\ LET u == outfitsReq.tok
     IN  IF TokenOk(u)
           THEN LET outfits == IF Len(beOutfits[u]) > 0 THEN beOutfits[u]
                               ELSE GenerateOutfits(beWardrobe[u])
                IN  /\ beOutfits' = [beOutfits EXCEPT ![u] = outfits]
                    /\ outfitsReq' = [pc |-> "served", tok |-> u, ok |-> TRUE,
                                      outfits |-> outfits]
           ELSE /\ outfitsReq' = [pc |-> "served", tok |-> u, ok |-> FALSE, outfits |-> <<>>]
                /\ UNCHANGED beOutfits
  /\ UNCHANGED <<authVars, tabVars, wardrobe, generatedOutfits, outfitsLoading, wardrobeTab,
                 selectedCategoryFilter, lastValidation, wardrobeLoads, addReq, delReq,
                 validateReq, extractAlert, extractReq, chatVars, plannerVars, miscVars,
                 beAccounts, beUsers, beWardrobe, beChat, bePlanned, nextId>>

\* loadOutfits after its fetch
OutfitsResponse(networkError) ==
  /\ outfitsReq.pc = "served" \/ (networkError /\ outfitsReq.pc = "sent")
  /\ outfitsReq' = Idle
  /\ outfitsLoading' = FALSE
  /\ generatedOutfits' = IF ~networkError /\ outfitsReq.ok THEN outfitsReq.outfits
                         ELSE generatedOutfits
  /\ UNCHANGED <<authVars, tabVars, wardrobe, wardrobeTab, selectedCategoryFilter,
                 lastValidation, wardrobeLoads, addReq, delReq, validateReq, extractAlert,
                 extractReq, chatVars, plannerVars, miscVars, beVars>>

\* ------------------------------------------------------ POST /api/wardrobe
\* the backend stores the analysed item and clears the user's saved outfits
PostAccepts(tok) == TokenOk(tok) /\ nextId <= MaxWardrobe

PostWardrobe(tok, category) ==
  /\ beWardrobe' = [beWardrobe EXCEPT ![tok] = Append(@, [id |-> nextId, category |-> category])]
  /\ beOutfits' = [beOutfits EXCEPT ![tok] = <<>>]
  /\ nextId' = nextId + 1

\* addWardrobeItems up to the image picker
AddStart(granted) ==
  /\ MainApp /\ addReq.pc = "idle"
  /\ (currentTab = "wardrobe" /\ ~loading) \/ showManualOutfitBuilder
  /\ IF granted
       THEN loading' = TRUE /\ addReq' = [pc |-> "picking", tok |-> token]
       ELSE loading' = FALSE /\ UNCHANGED addReq
  /\ UNCHANGED <<user, token, showOnboarding, isLogin, email, password, name, debugError,
                 storage, authReq, tabVars, wardrobe, generatedOutfits, outfitsLoading,
                 wardrobeTab, selectedCategoryFilter, lastValidation, wardrobeLoads, outfitsReq,
                 delReq, validateReq, extractAlert, extractReq, chatVars, plannerVars, miscVars,
                 beVars>>

\* the picker returns: cancelled, or an image that is posted
AddPicked(cancelled) ==
  /\ addReq.pc = "picking"
  /\ IF cancelled
       THEN loading' = FALSE /\ addReq' = Idle
       ELSE addReq' = [addReq EXCEPT !.pc = "posting"] /\ UNCHANGED loading
  /\ UNCHANGED <<user, token, showOnboarding, isLogin, email, password, name, debugError,
                 storage, authReq, tabVars, wardrobe, generatedOutfits, outfitsLoading,
                 wardrobeTab, selectedCategoryFilter, lastValidation, wardrobeLoads, outfitsReq,
                 delReq, validateReq, extractAlert, extractReq, chatVars, plannerVars, miscVars,
                 beVars>>

\* addWardrobeItems after the POST
addWardrobeItemsOk(tok) ==
  /\ wardrobeLoads' = LoadCall(wardrobeLoads, tok)
  /\ generatedOutfits' = <<>>

AddResponse(failed, category) ==
  /\ addReq.pc = "posting"
  /\ addReq' = Idle
  /\ loading' = FALSE
  /\ IF ~failed /\ PostAccepts(addReq.tok)
       THEN /\ Len(wardrobeLoads) < MaxLoads
            /\ PostWardrobe(addReq.tok, category)
            /\ addWardrobeItemsOk(addReq.tok)
       ELSE UNCHANGED <<beWardrobe, beOutfits, nextId, wardrobeLoads, generatedOutfits>>
  /\ UNCHANGED <<user, token, showOnboarding, isLogin, email, password, name, debugError,
                 storage, authReq, tabVars, wardrobe, outfitsLoading, wardrobeTab,
                 selectedCategoryFilter, lastValidation, outfitsReq, delReq, validateReq,
                 extractAlert, extractReq, chatVars, plannerVars, miscVars,
                 beAccounts, beUsers, beChat, bePlanned>>

\* -------------------------------------------- DELETE /api/wardrobe/{item_id}
Without(items, itemId) == SelectSeq(items, LAMBDA item : item.id # itemId)

\* deleteWardrobeItem up to its fetch: the optimistic removal
DeleteStart(itemId) ==
  /\ MainApp /\ currentTab = "wardrobe" /\ ~loading /\ wardrobeTab = "items"
  /\ delReq.pc = "idle"
  /\ \E c \in DOMAIN getFilteredWardrobe : itemId \in Ids(getFilteredWardrobe[c])
  /\ wardrobe' = Without(wardrobe, itemId)
  /\ IF token = NoToken
       THEN UNCHANGED delReq
       ELSE delReq' = [pc |-> "sent", tok |-> token, id |-> itemId]
  /\ UNCHANGED <<authVars, tabVars, generatedOutfits, outfitsLoading, wardrobeTab,
                 selectedCategoryFilter, lastValidation, wardrobeLoads, outfitsReq, addReq,
                 validateReq, extractAlert, extractReq, chatVars, plannerVars, miscVars,
                 beVars>>

DeleteAccepts(req) == TokenOk(req.tok) /\ req.id \in Ids(beWardrobe[req.tok])

\* deleteWardrobeItem after its fetch
deleteWardrobeItemOk == generatedOutfits' = <<>>

DeleteResponse(failed) ==
  /\ delReq.pc = "sent"
  /\ delReq' = Idle
  /\ IF ~failed /\ DeleteAccepts(delReq)
       THEN /\ beWardrobe' = [beWardrobe EXCEPT ![delReq.tok] = Without(@, delReq.id)]
            /\ beOutfits' = [beOutfits EXCEPT ![delReq.tok] = <<>>]
            /\ deleteWardrobeItemOk
            /\ UNCHANGED <<wardrobeLoads, loading>>
       ELSE /\ Len(wardrobeLoads) < MaxLoads
            /\ wardrobeLoads' = LoadCall(wardrobeLoads, delReq.tok)
            /\ loading' = TRUE
            /\ UNCHANGED <<beWardrobe, beOutfits, generatedOutfits>>
  /\ UNCHANGED <<user, token, showOnboarding, isLogin, email, password, name, debugError,
                 storage, authReq, tabVars, wardrobe, outfitsLoading, wardrobeTab,
                 selectedCategoryFilter, lastValidation, outfitsReq, addReq, validateReq,
                 extractAlert, extractReq, chatVars, plannerVars, miscVars,
                 beAccounts, beUsers, beChat, bePlanned, nextId>>

\* ------------------------------------------------------- validateOutfit
\* validateOutfit up to its fetch (the picker may be cancelled)
ValidateStart(cancelled) ==
  /\ MainApp /\ currentTab = "validate" /\ ~loading /\ validateReq.pc = "idle"
  /\ IF cancelled
       THEN loading' = FALSE /\ UNCHANGED validateReq
       ELSE loading' = TRUE /\ validateReq' = [pc |-> "sent", tok |-> token]
  /\ UNCHANGED <<user, token, showOnboarding, isLogin, email, password, name, debugError,
                 storage, authReq, tabVars, wardrobe, generatedOutfits, outfitsLoading,
                 wardrobeTab, selectedCategoryFilter, lastValidation, wardrobeLoads, outfitsReq,
                 addReq, delReq, extractAlert, extractReq, chatVars, plannerVars, miscVars,
                 beVars>>

\* validateOutfit after its fetch: the validation is kept and the
\* extraction alert of handleOutfitExtractionPermission is put up
ValidateResponse(failed) ==
  /\ validateReq.pc = "sent"
  /\ validateReq' = Idle
  /\ loading' = FALSE
  /\ IF ~failed /\ TokenOk(validateReq.tok)
       THEN /\ lastValidation' = validateReq.tok
            /\ extractAlert' = [src |-> "outfit", tok |-> validateReq.tok]
       ELSE UNCHANGED <<lastValidation, extractAlert>>
  /\ UNCHANGED <<user, token, showOnboarding, isLogin, email, password, name, debugError,
                 storage, authReq, tabVars, wardrobe, generatedOutfits, outfitsLoading,
                 wardrobeTab, selectedCategoryFilter, wardrobeLoads, outfitsReq, addReq, delReq,
                 extractReq, chatVars, plannerVars, miscVars, beVars>>

\* ------------------- handleItemExtractionPermission / handleOutfitExtractionPermission
\* 'Not Now' / 'Maybe Later'
ExtractDismiss ==
  /\ extractAlert.src # "none"
  /\ extractAlert' = NoAlert
  /\ UNCHANGED <<authVars, tabVars, wardrobe, generatedOutfits, outfitsLoading, wardrobeTab,
                 selectedCategoryFilter, lastValidation, wardrobeLoads, outfitsReq, addReq,
                 delReq, validateReq, extractReq, chatVars, plannerVars, miscVars, beVars>>

\* 'Yes, Extract Items' / 'Yes, Add Items': onPress up to its fetch
ExtractYes ==
  /\ extractAlert.src # "none" /\ extractReq.pc = "idle"
  /\ extractAlert' = NoAlert
  /\ loading' = TRUE
  /\ extractReq' = [pc |-> "sent", tok |-> extractAlert.tok, src |-> extractAlert.src]
  /\ UNCHANGED <<user, token, showOnboarding, isLogin, email, password, name, debugError,
                 storage, authReq, tabVars, wardrobe, generatedOutfits, outfitsLoading,
                 wardrobeTab, selectedCategoryFilter, lastValidation, wardrobeLoads, outfitsReq,
                 addReq, delReq, validateReq, chatVars, plannerVars, miscVars, beVars>>

\* onPress after its fetch: on response.ok only the wardrobe is reloaded
ExtractionOk(tok) ==
  /\ wardrobeLoads' = LoadCall(wardrobeLoads, tok)
  /\ UNCHANGED generatedOutfits

ExtractResponse(failed, category) ==
  /\ extractReq.pc = "sent"
  /\ extractReq' = Idle
  /\ loading' = FALSE
  /\ IF ~failed /\ PostAccepts(extractReq.tok)
       THEN /\ Len(wardrobeLoads) < MaxLoads
            /\ PostWardrobe(extractReq.tok, category)
            /\ ExtractionOk(extractReq.tok)
       ELSE UNCHANGED <<beWardrobe, beOutfits, nextId, wardrobeLoads, generatedOutfits>>
  /\ UNCHANGED <<user, token, showOnboarding, isLogin, email, password, name, debugError,
                 storage, authReq, tabVars, wardrobe, outfitsLoading, wardrobeTab,
                 selectedCategoryFilter, lastValidation, outfitsReq, addReq, delReq,
                 validateReq, extractAlert, chatVars, plannerVars, miscVars,
                 beAccounts, beUsers, beChat, bePlanned>>


\* ------------------------------------------------------------------ chat
Texts == {"", " ", "hi"}

\* String.prototype.trim
Trim(text) == IF text = " " THEN "" ELSE text

\* msg.id.startsWith(prefix)
StartsWith(id, prefix) == id[1] = prefix

SetChatInput(text) ==
  /\ MainApp /\ currentTab = "chat" /\ text # chatInput
  /\ chatInput' = text
  /\ UNCHANGED <<authVars, tabVars, wardrobeVars, chatMessages, chatImage, sendReq, freshReq,
                 histLoads, plannerVars, miscVars, beVars>>

\* selectChatImage with an image picked
SelectChatImage ==
  /\ MainApp /\ currentTab = "chat" /\ ~loading /\ ~chatImage
  /\ chatImage' = TRUE
  /\ UNCHANGED <<authVars, tabVars, wardrobeVars, chatMessages, chatInput, sendReq, freshReq,
                 histLoads, plannerVars, miscVars, beVars>>

\* prev.filter(msg => !msg.id.startsWith('typing-') && !msg.id.startsWith('loading-'))
WithoutIndicators(msgs) ==
  SelectSeq(msgs, LAMBDA msg : ~StartsWith(msg.id, "typing-") /\ ~StartsWith(msg.id, "loading-"))

\* [...prev.filter(msg => !msg.id.startsWith('loading-')), typingMessage]
WithTyping(msgs, uid) ==
  Append(SelectSeq(msgs, LAMBDA msg : ~StartsWith(msg.id, "loading-")),
         [id |-> <<"typing-", 0>>, user_id |-> uid, is_user |-> FALSE, message |-> "..."])

UserMessage(uid, text) ==
  [id |-> <<"ts", 0>>, user_id |-> uid, is_user |-> TRUE,
   message |-> IF text = "" THEN "Please analyze this image" ELSE text]

\* sendMessage up to its fetch
SendStart ==
  /\ MainApp /\ currentTab = "chat" /\ ~loading
  /\ Trim(chatInput) # "" \/ chatImage
  /\ sendReq.pc = "idle"
  /\ Len(chatMessages) + 1 + MaxChunks <= MaxChat
  /\ chatMessages' = WithTyping(Append(chatMessages, UserMessage(user.id, chatInput)), user.id)
  /\ extractAlert' = IF chatImage THEN [src |-> "chat", tok |-> token] ELSE extractAlert
  /\ chatInput' = "" /\ chatImage' = FALSE
  /\ loading' = TRUE
  /\ sendReq' = [pc |-> "sent", tok |-> token, uid |-> user.id,
                 message |-> UserMessage(user.id, chatInput)]
  /\ UNCHANGED <<user, token, showOnboarding, isLogin, email, password, name, debugError,
                 storage, authReq, tabVars, wardrobe, generatedOutfits, outfitsLoading,
                 wardrobeTab, selectedCategoryFilter, lastValidation, wardrobeLoads, outfitsReq,
                 addReq, delReq, validateReq, extractReq, freshReq, histLoads, plannerVars,
                 miscVars, beVars>>

\* the response bodies of POST /api/chat: the chunked format (messages,
\* optionally message_ids) and the old format (message only)
ChunkTexts == <<"c1", "c2", "c3">>

ChatData(n, chunked, withIds) ==
  [hasMessages |-> chunked,
   messages |-> IF chunked THEN SubSeq(ChunkTexts, 1, n) ELSE <<>>,
   message |-> ChunkTexts[1],
   hasIds |-> withIds,
   message_ids |-> IF withIds THEN [i \in 1..n |-> <<"srv", i>>] ELSE <<>>]

ChatDatas ==
  {ChatData(n, TRUE, withIds) : n \in 0..MaxChunks, withIds \in BOOLEAN}
    \cup {ChatData(1, FALSE, withIds) : withIds \in BOOLEAN}

\* the messages the backend stores for a handled chat request
StoredReplies(uid, data) ==
  LET texts == IF data.hasMessages THEN data.messages ELSE <<data.message>>
  IN  [i \in 1..Len(texts) |-> [id |-> <<"srv", i>>, user_id |-> uid, is_user |-> FALSE,
                               message |-> texts[i]]]

\* the backend handles the chat request; the response may still be lost
ChatServe(data, lost) ==
  /\ sendReq.pc = "sent"
  /\ data \in ChatDatas
  /\ LET u == sendReq.tok
         accepted == TokenOk(u) /\ Len(beChat[u]) + 1 + MaxChunks <= MaxChat
     IN  /\ sendReq' = [sendReq EXCEPT !.pc = "served"] @@
                         [ok |-> accepted, lost |-> lost, data |-> data, i |-> 0]
         /\ beChat' = IF accepted
                        THEN [beChat EXCEPT ![u] = Append(@, sendReq.message) \o StoredReplies(u, data)]
                        ELSE beChat
  /\ UNCHANGED <<authVars, tabVars, wardrobeVars, chatMessages, chatInput, chatImage, freshReq,
                 histLoads, plannerVars, miscVars,
                 beAccounts, beUsers, beWardrobe, beOutfits, bePlanned, nextId>>

\* only the old single-message field is read
MessageChunksOldFormatOnly(data) == <<data.message>>

\* data.messages || [data.message]
MessageChunks(data) == IF data.hasMessages THEN data.messages ELSE <<data.message>>

\* the aiMessage built for chunk i (0-based in the code, 1-based here)
AiMessage(data, uid, i) ==
  [id |-> IF data.hasIds THEN data.message_ids[i] ELSE <<"ts", i - 1>>,
   user_id |-> uid, is_user |-> FALSE, message |-> MessageChunks(data)[i]]

\* sendMessage after its fetch: the indicator is removed; on response.ok the
\* first chunk is appended at once, the others after a 600 ms wait each
ChatResponse ==
  /\ sendReq.pc = "served"
  /\ LET data == sendReq.data
         n == Len(MessageChunks(data))
         cleaned == WithoutIndicators(chatMessages)
     IN  IF sendReq.ok /\ ~sendReq.lost
           THEN /\ chatMessages' = IF n >= 1 THEN Append(cleaned, AiMessage(data, sendReq.uid, 1))
                                   ELSE cleaned
                /\ IF n > 1
                     THEN sendReq' = [sendReq EXCEPT !.pc = "chunks", !.i = 1] /\ UNCHANGED loading
                     ELSE sendReq' = Idle /\ loading' = FALSE
           ELSE /\ chatMessages' = cleaned
                /\ sendReq' = Idle /\ loading' = FALSE
  /\ UNCHANGED <<user, token, showOnboarding, isLogin, email, password, name, debugError,
                 storage, authReq, tabVars, wardrobeVars, chatInput, chatImage, freshReq,
                 histLoads, plannerVars, miscVars, beVars>>

\* the fetch throws before the backend has handled the request
ChatNetworkError ==
  /\ sendReq.pc = "sent"
  /\ chatMessages' = WithoutIndicators(chatMessages)
  /\ sendReq' = Idle /\ loading' = FALSE
  /\ UNCHANGED <<user, token, showOnboarding, isLogin, email, password, name, debugError,
                 storage, authReq, tabVars, wardrobeVars, chatInput, chatImage, freshReq,
                 histLoads, plannerVars, miscVars, beVars>>

\* the next iteration of the chunk loop, after its 600 ms wait
SendChunk ==
  /\ sendReq.pc = "chunks"
  /\ LET i == sendReq.i + 1
         n == Len(MessageChunks(sendReq.data))
     IN  /\ chatMessages' = Append(chatMessages, AiMessage(sendReq.data, sendReq.uid, i))
         /\ IF i < n
              THEN sendReq' = [sendReq EXCEPT !.i = i] /\ UNCHANGED loading
              ELSE sendReq' = Idle /\ loading' = FALSE
  /\ UNCHANGED <<user, token, showOnboarding, isLogin, email, password, name, debugError,
                 storage, authReq, tabVars, wardrobeVars, chatInput, chatImage, freshReq,
                 histLoads, plannerVars, miscVars, beVars>>

\* ------------------------------------------------- startFreshChatSession
\* the input is left as it was
ClearChatStateKeepsInput == chatMessages' = <<>> /\ chatImage' = FALSE /\ UNCHANGED chatInput

\* setChatMessages([]); setChatInput(''); setChatImage(null)
ClearChatState == chatMessages' = <<>> /\ chatInput' = "" /\ chatImage' = FALSE

\* startFreshChatSession up to its fetch (without a token it ends here)
FreshStart ==
  /\ MainApp /\ currentTab = "chat" /\ freshReq.pc = "idle"
  /\ ClearChatState
  /\ freshReq' = IF token # NoToken THEN [pc |-> "sent", tok |-> token] ELSE Idle
  /\ UNCHANGED <<authVars, tabVars, wardrobeVars, sendReq, histLoads, plannerVars, miscVars,
                 beVars>>

\* DELETE /api/chat/clear at the backend: all the user's messages are deleted
FreshServe(serverError) ==
  /\ freshReq.pc = "sent"
  /\ LET accepted == TokenOk(freshReq.tok) /\ ~serverError
     IN  /\ freshReq' = [pc |-> "served", tok |-> freshReq.tok, ok |-> accepted]
         /\ beChat' = IF accepted THEN [beChat EXCEPT ![freshReq.tok] = <<>>] ELSE beChat
  /\ UNCHANGED <<authVars, tabVars, wardrobeVars, chatMessages, chatInput, chatImage, sendReq,
                 histLoads, plannerVars, miscVars,
                 beAccounts, beUsers, beWardrobe, beOutfits, bePlanned, nextId>>

\* startFreshChatSession after its fetch: a response, ok or not, is only logged
FreshResponse ==
  /\ freshReq.pc = "served"
  /\ freshReq' = Idle
  /\ UNCHANGED <<authVars, tabVars, wardrobeVars, chatMessages, chatInput, chatImage, sendReq,
                 histLoads, plannerVars, miscVars, beVars>>

\* the fetch throws: the catch block clears the frontend state again
FreshThrow ==
  /\ freshReq.pc \in {"sent", "served"}
  /\ freshReq' = Idle
  /\ ClearChatState
  /\ UNCHANGED <<authVars, tabVars, wardrobeVars, sendReq, histLoads, plannerVars, miscVars,
                 beVars>>

\* ------------------------------------------------------- loadChatHistory
\* loadChatHistory after its fetch
HistResponse(i, failed) ==
  /\ i \in 1..Len(histLoads)
  /\ histLoads' = RemoveAt(histLoads, i)
  /\ LET tok == histLoads[i]
     IN  IF failed
           THEN UNCHANGED <<chatMessages, storage, token, user>>
           ELSE IF TokenOk(tok)
             THEN /\ chatMessages' = beChat[tok]
                  /\ UNCHANGED <<storage, token, user>>
             ELSE /\ storage' = [storage EXCEPT !.token = NoToken]
                  /\ token' = NoToken /\ user' = NoUser
                  /\ UNCHANGED chatMessages
  /\ UNCHANGED <<loading, showOnboarding, isLogin, email, password, name, debugError, authReq,
                 tabVars, wardrobeVars, chatInput, chatImage, sendReq, freshReq, plannerVars,
                 miscVars, beVars>>


\* ---------------------------------------------------------------- planner
\* the item categories listed under each slot of the manual outfit builder
SlotWear(slot) ==
  CASE slot = "top" -> {"T-shirts", "Shirts", "Tops", "Blouses"}
    [] slot = "bottom" -> {"Pants", "Jeans", "Bottoms", "Skirts", "Shorts"}
    [] slot = "layering" -> {"Jackets", "Blazers", "Sweaters", "Cardigans", "Coats"}
    [] slot = "shoes" -> {"Shoes", "Sneakers", "Boots", "Sandals", "Heels"}

Slots == <<"top", "bottom", "layering", "shoes">>
NoItem == 0
EmptyOutfit == [top |-> NoItem, bottom |-> NoItem, layering |-> NoItem, shoes |-> NoItem]
NoDate == -1
Occasions == {"Work"}
EventNames == {"Gym"}
\* the day cards that are pressed: the first and the last of the week
Cards == {1, DaysPerWeek}
Weeks == 0..MaxWeek

\* a week arrow or the week picker: the week changes and
\* useEffect([user, token, currentTab, selectedWeek]) runs
SetSelectedWeek(w) ==
  /\ MainApp /\ currentTab = "planner" /\ ~showManualOutfitBuilder
  /\ w \in Weeks /\ w # selectedWeek /\ CanLoad
  /\ selectedWeek' = w
  /\ LoadEffects(user, token, currentTab, wardrobe, w, loading)
  /\ UNCHANGED <<user, token, showOnboarding, isLogin, email, password, name, debugError,
                 storage, authReq, tabVars, wardrobe, generatedOutfits, outfitsLoading,
                 wardrobeTab, selectedCategoryFilter, lastValidation, outfitsReq, addReq, delReq,
                 validateReq, extractAlert, extractReq, chatVars, weeklyOutfits, selectedOutfit,
                 selectedOutfitDate, outfitOccasion, outfitEvent, showManualOutfitBuilder,
                 saveReq, miscVars, beVars>>

\* a day card is pressed (Edit, or 'No outfit planned yet')
SelectDay(i) ==
  /\ MainApp /\ currentTab = "planner" /\ ~showManualOutfitBuilder
  /\ i \in Cards
  /\ selectedOutfitDate' = formatDate(getWeekDates(selectedWeek)[i])
  /\ UNCHANGED <<authVars, tabVars, wardrobeVars, chatVars, selectedWeek, weeklyOutfits,
                 selectedOutfit, outfitOccasion, outfitEvent, showManualOutfitBuilder,
                 plannedLoads, saveReq, miscVars, beVars>>

\* the manual mode of the outfit modal is chosen
OpenManualBuilder ==
  /\ MainApp /\ currentTab = "planner" /\ ~showManualOutfitBuilder
  /\ selectedOutfitDate # NoDate
  /\ showManualOutfitBuilder' = TRUE
  /\ IF Len(wardrobe) = 0 /\ token # NoToken
       THEN /\ Len(wardrobeLoads) < MaxLoads
            /\ wardrobeLoads' = LoadCall(wardrobeLoads, token) /\ loading' = TRUE
       ELSE UNCHANGED <<wardrobeLoads, loading>>
  /\ outfitEvent' = "" /\ outfitOccasion' = "" /\ selectedOutfit' = EmptyOutfit
  /\ UNCHANGED <<user, token, showOnboarding, isLogin, email, password, name, debugError,
                 storage, authReq, tabVars, wardrobe, generatedOutfits, outfitsLoading,
                 wardrobeTab, selectedCategoryFilter, lastValidation, outfitsReq, addReq, delReq,
                 validateReq, extractAlert, extractReq, chatVars, selectedWeek, weeklyOutfits,
                 selectedOutfitDate, plannedLoads, saveReq, miscVars, beVars>>

\* an item card of a slot is pressed: it is selected, or unselected again
ToggleItem(slot, itemId) ==
  /\ MainApp /\ showManualOutfitBuilder
  /\ \E k \in 1..Len(wardrobe) : wardrobe[k].id = itemId /\ wardrobe[k].category \in SlotWear(slot)
  /\ selectedOutfit' = [selectedOutfit EXCEPT ![slot] = IF @ = itemId THEN NoItem ELSE itemId]
  /\ UNCHANGED <<authVars, tabVars, wardrobeVars, chatVars, selectedWeek, weeklyOutfits,
                 selectedOutfitDate, outfitOccasion, outfitEvent, showManualOutfitBuilder,
                 plannedLoads, saveReq, miscVars, beVars>>

SetOutfitOccasion(occasion) ==
  /\ MainApp /\ showManualOutfitBuilder
  /\ outfitOccasion' = occasion
  /\ UNCHANGED <<authVars, tabVars, wardrobeVars, chatVars, selectedWeek, weeklyOutfits,
                 selectedOutfit, selectedOutfitDate, outfitEvent, showManualOutfitBuilder,
                 plannedLoads, saveReq, miscVars, beVars>>

SetOutfitEvent(event) ==
  /\ MainApp /\ showManualOutfitBuilder
  /\ outfitEvent' = event
  /\ UNCHANGED <<authVars, tabVars, wardrobeVars, chatVars, selectedWeek, weeklyOutfits,
                 selectedOutfit, selectedOutfitDate, outfitOccasion, showManualOutfitBuilder,
                 plannedLoads, saveReq, miscVars, beVars>>

\* savePlannedOutfit up to its fetch; the closure keeps the token, the
\* wardrobe and the week of the render in which Save was pressed
SaveStart ==
  /\ MainApp /\ showManualOutfitBuilder /\ saveReq.pc = "idle"
  /\ token # NoToken
  /\ selectedOutfit.top # NoItem \/ selectedOutfit.bottom # NoItem
  /\ loading' = TRUE
  /\ saveReq' = [pc |-> "saving", tok |-> token, wardrobe |-> wardrobe, week |-> selectedWeek,
                 data |-> [date |-> selectedOutfitDate,
                           occasion |-> IF outfitOccasion = "" THEN "Casual" ELSE outfitOccasion,
                           event_name |-> outfitEvent,
                           items |-> selectedOutfit]]
  /\ UNCHANGED <<user, token, showOnboarding, isLogin, email, password, name, debugError,
                 storage, authReq, tabVars, wardrobeVars, chatVars, selectedWeek, weeklyOutfits,
                 selectedOutfit, selectedOutfitDate, outfitOccasion, outfitEvent,
                 showManualOutfitBuilder, plannedLoads, miscVars, beVars>>

HasDate(list, date) == \E j \in 1..Len(list) : list[j].date = date

\* POST /api/planner/outfit: an outfit already planned for the date is updated
PlannerUpsert(list, outfit) ==
  IF HasDate(list, outfit.date)
    THEN [j \in 1..Len(list) |-> IF list[j].date = outfit.date THEN outfit ELSE list[j]]
    ELSE Append(list, outfit)

SaveAccepts(tok, outfit) ==
  TokenOk(tok) /\ (HasDate(bePlanned[tok], outfit.date) \/ Len(bePlanned[tok]) < MaxPlanned)

\* savePlannedOutfit after its fetch
SaveResponse(failed) ==
  /\ saveReq.pc = "saving"
  /\ IF ~failed /\ SaveAccepts(saveReq.tok, saveReq.data)
       THEN /\ Len(plannedLoads) < MaxLoads
            /\ bePlanned' = [bePlanned EXCEPT ![saveReq.tok] = PlannerUpsert(@, saveReq.data)]
            /\ selectedOutfit' = EmptyOutfit
            /\ outfitEvent' = "" /\ outfitOccasion' = ""
            /\ showManualOutfitBuilder' = FALSE
            /\ plannedLoads' = Append(plannedLoads,
                                      PlannedCall(saveReq.tok, saveReq.wardrobe, saveReq.week))
       ELSE UNCHANGED <<bePlanned, selectedOutfit, outfitEvent, outfitOccasion,
                        showManualOutfitBuilder, plannedLoads>>
  /\ loading' = FALSE /\ saveReq' = Idle
  /\ UNCHANGED <<user, token, showOnboarding, isLogin, email, password, name, debugError,
                 storage, authReq, tabVars, wardrobeVars, chatVars, selectedWeek, weeklyOutfits,
                 selectedOutfitDate, miscVars,
                 beAccounts, beUsers, beWardrobe, beOutfits, beChat, nextId>>

\* the dates under which the day cards of the shown week look up their outfit
CardKeys == {formatDate(getWeekDates(selectedWeek)[i]) : i \in 1..DaysPerWeek}

\* Delete Outfit in the details of a shown planned outfit, up to its fetch
DeletePlannedStart(date) ==
  /\ MainApp /\ currentTab = "planner" /\ ~showManualOutfitBuilder /\ saveReq.pc = "idle"
  /\ date \in DOMAIN weeklyOutfits /\ date \in CardKeys
  /\ saveReq' = [pc |-> "deleting", tok |-> token, wardrobe |-> wardrobe, week |-> selectedWeek,
                 data |-> [date |-> weeklyOutfits[date].date]]
  /\ UNCHANGED <<authVars, tabVars, wardrobeVars, chatVars, selectedWeek, weeklyOutfits,
                 selectedOutfit, selectedOutfitDate, outfitOccasion, outfitEvent,
                 showManualOutfitBuilder, plannedLoads, miscVars, beVars>>

\* DELETE /api/planner/outfit/{date}
PlannerDelete(list, date) == SelectSeq(list, LAMBDA o : o.date # date)

\* Delete Outfit after its fetch
DeletePlannedResponse(failed) ==
  /\ saveReq.pc = "deleting"
  /\ IF ~failed /\ TokenOk(saveReq.tok)
       THEN /\ Len(plannedLoads) < MaxLoads
            /\ bePlanned' = [bePlanned EXCEPT ![saveReq.tok] = PlannerDelete(@, saveReq.data.date)]
            /\ plannedLoads' = Append(plannedLoads,
                                      PlannedCall(saveReq.tok, saveReq.wardrobe, saveReq.week))
       ELSE UNCHANGED <<bePlanned, plannedLoads>>
  /\ saveReq' = Idle
  /\ UNCHANGED <<authVars, tabVars, wardrobeVars, chatVars, selectedWeek, weeklyOutfits,
                 selectedOutfit, selectedOutfitDate, outfitOccasion, outfitEvent,
                 showManualOutfitBuilder, miscVars,
                 beAccounts, beUsers, beWardrobe, beOutfits, beChat, nextId>>

\* GET /api/planner/outfits?start_date=&end_date=
PlannedInRange(list, start_date, end_date) ==
  SelectSeq(list, LAMBDA o : start_date <= o.date /\ o.date <= end_date)

\* wardrobe.find(item => item.id === id), pushed when found
Find(wsnap, itemId) ==
  LET found == SelectSeq(wsnap, LAMBDA item : item.id = itemId)
  IN  IF itemId # NoItem /\ Len(found) > 0 THEN <<found[1]>> ELSE <<>>

\* outfitItems of one planned outfit
OutfitItems(plannedOutfit, wsnap) ==
  Find(wsnap, plannedOutfit.items.top) \o Find(wsnap, plannedOutfit.items.bottom)
    \o Find(wsnap, plannedOutfit.items.layering) \o Find(wsnap, plannedOutfit.items.shoes)

\* every outfit is stored under the date of the first one
RECURSIVE OutfitsMapUnderFirstDate(_, _, _, _)
OutfitsMapUnderFirstDate(list, i, wsnap, outfitsMap) ==
  IF i > Len(list)
    THEN outfitsMap
    ELSE OutfitsMapUnderFirstDate(list, i + 1, wsnap,
           (list[1].date :> [list[i] EXCEPT !.items = OutfitItems(list[i], wsnap)]) @@ outfitsMap)

\* outfitsMap[plannedOutfit.date] = {...plannedOutfit, items: outfitItems}
RECURSIVE OutfitsMap(_, _, _, _)
OutfitsMap(list, i, wsnap, outfitsMap) ==
  IF i > Len(list)
    THEN outfitsMap
    ELSE OutfitsMap(list, i + 1, wsnap,
           (list[i].date :> [list[i] EXCEPT !.items = OutfitItems(list[i], wsnap)]) @@ outfitsMap)

\* loadPlannedOutfits after its fetch, with the wardrobe of its closure
PlannedResponse(i, failed) ==
  /\ i \in 1..Len(plannedLoads)
  /\ plannedLoads' = RemoveAt(plannedLoads, i)
  /\ LET call == plannedLoads[i]
     IN  IF ~failed /\ TokenOk(call.tok)
           THEN weeklyOutfits' =
                  OutfitsMap(PlannedInRange(bePlanned[call.tok], call.start_date, call.end_date),
                             1, call.wardrobe, <<>>)
           ELSE UNCHANGED weeklyOutfits
  /\ UNCHANGED <<authVars, tabVars, wardrobeVars, chatVars, selectedWeek, selectedOutfit,
                 selectedOutfitDate, outfitOccasion, outfitEvent, showManualOutfitBuilder,
                 saveReq, miscVars, beVars>>



\* ------------------------------------------------------------ onboarding
\* the profile fields that are filled in on the onboarding steps
OnboardingFields == {"age", "skin_tone"}

\* an answer is given on an onboarding step
SetOnboardingData(field) ==
  /\ LoggedIn /\ showOnboarding /\ ~onboardingData[field]
  /\ onboardingData' = [onboardingData EXCEPT ![field] = TRUE]
  /\ UNCHANGED <<authVars, tabVars, wardrobeVars, chatVars, plannerVars, now, tz, reopen,
                 onboardReq, beVars>>

\* completeOnboarding up to its fetch ('Complete Profile' on the last step)
CompleteOnboardingStart ==
  /\ LoggedIn /\ showOnboarding /\ ~loading /\ onboardReq.pc = "idle"
  /\ loading' = TRUE
  /\ onboardReq' = [pc |-> "sent", tok |-> token, data |-> onboardingData]
  /\ UNCHANGED <<user, token, showOnboarding, isLogin, email, password, name, debugError,
                 storage, authReq, tabVars, wardrobeVars, chatVars, plannerVars,
                 onboardingData, now, tz, reopen, beVars>>

\* PUT /api/auth/onboarding: the profile is updated with the submitted answers
\* and the complete user is returned with onboarding_completed true
OnboardedUser(u, data) ==
  [id |-> u.id, name |-> u.name \/ data.name, age |-> u.age \/ data.age,
   profession |-> u.profession \/ data.profession,
   body_shape |-> u.body_shape \/ data.body_shape,
   skin_tone |-> u.skin_tone \/ data.skin_tone, onboarding_completed |-> TRUE]

\* completeOnboarding after its fetch, and the effects of the new user
OnboardingResponse(failed) ==
  /\ onboardReq.pc = "sent"
  /\ onboardReq' = Idle
  /\ IF ~failed /\ TokenOk(onboardReq.tok)
       THEN LET updatedUser == OnboardedUser(beUsers[onboardReq.tok], onboardReq.data)
            IN  /\ CanLoad
                /\ beUsers' = [beUsers EXCEPT ![onboardReq.tok] = updatedUser]
                /\ user' = updatedUser
                /\ currentTab' = "chat"
                /\ chatInput' = "" /\ chatImage' = FALSE
                /\ UserEffects(updatedUser, <<>>)
                /\ histLoads' = IF currentTab # "chat" THEN HistCall(histLoads, token)
                                ELSE histLoads
                /\ LoadEffects(updatedUser, token, "chat", wardrobe, selectedWeek, FALSE)
       ELSE /\ loading' = FALSE
            /\ UNCHANGED <<beUsers, user, currentTab, chatInput, chatImage, showOnboarding,
                           chatMessages, histLoads, wardrobeLoads, plannedLoads>>
  /\ UNCHANGED <<token, isLogin, email, password, name, debugError, storage, authReq,
                 wardrobe, generatedOutfits, outfitsLoading, wardrobeTab, selectedCategoryFilter,
                 lastValidation, outfitsReq, addReq, delReq, validateReq, extractAlert,
                 extractReq, sendReq, freshReq, selectedWeek, weeklyOutfits, selectedOutfit,
                 selectedOutfitDate, outfitOccasion, outfitEvent, showManualOutfitBuilder,
                 saveReq, onboardingData, now, tz, reopen,
                 beAccounts, beWardrobe, beOutfits, beChat, bePlanned, nextId>>

\* ------------------------------------------ checkAuthStatus / app reopen
\* Date.now(), in minutes
CurrentTime == (now.day * MinutesPerDay) + now.minute

\* the token that checkAuthStatus and handleAppReopenBehavior read: they are
\* the functions of the first render, called by useEffect(.., []), and in that
\* render the token state is null
MountToken == NoToken

\* the app is closed and opened again after some minutes: every state of the
\* component starts from its initial value, AsyncStorage and the backend stay,
\* and checkAuthStatus runs up to its fetch of /api/auth/me
AppRestart(elapsed) ==
  /\ now.minute + elapsed <= MaxClock
  /\ now' = [now EXCEPT !.minute = @ + elapsed]
  /\ user' = NoUser /\ currentTab' = "chat" /\ loading' = FALSE
  /\ showOnboarding' = FALSE
  /\ isLogin' = TRUE /\ email' = "" /\ password' = "" /\ name' = "" /\ debugError' = ""
  /\ wardrobe' = <<>> /\ generatedOutfits' = <<>> /\ outfitsLoading' = FALSE
  /\ wardrobeTab' = "items" /\ selectedCategoryFilter' = AllFilter
  /\ lastValidation' = "none" /\ showManualOutfitBuilder' = FALSE
  /\ chatMessages' = <<>> /\ chatInput' = "" /\ chatImage' = FALSE
  /\ selectedWeek' = 0 /\ weeklyOutfits' = <<>>
  /\ selectedOutfit' = EmptyOutfit
  /\ selectedOutfitDate' = NoDate /\ outfitOccasion' = "" /\ outfitEvent' = ""
  /\ onboardingData' = NoUser
  /\ authReq' = Idle /\ wardrobeLoads' = <<>> /\ outfitsReq' = Idle /\ addReq' = Idle
  /\ delReq' = Idle /\ validateReq' = Idle /\ extractAlert' = NoAlert /\ extractReq' = Idle
  /\ sendReq' = Idle /\ freshReq' = Idle /\ histLoads' = <<>> /\ plannedLoads' = <<>>
  /\ saveReq' = Idle /\ onboardReq' = Idle
  /\ token' = storage.token
  /\ reopen' = IF storage.token # NoToken THEN [pc |-> "me", tok |-> storage.token] ELSE Idle
  /\ UNCHANGED <<storage, tz, beVars>>

\* checkAuthStatus after its fetch: on response.ok the user is set (the effects
\* of the new user run) and handleAppReopenBehavior starts, up to its read of
\* lastSessionTime
ReopenMeResponse(networkError) ==
  /\ reopen.pc = "me"
  /\ IF networkError
       THEN /\ reopen' = Idle
            /\ UNCHANGED <<user, token, storage, showOnboarding, chatMessages, wardrobeLoads,
                           loading, plannedLoads>>
       ELSE IF TokenOk(reopen.tok)
         THEN /\ CanLoad
              /\ user' = beUsers[reopen.tok]
              /\ reopen' = [pc |-> "reopen", tok |-> reopen.tok]
              /\ UserEffects(beUsers[reopen.tok], chatMessages)
              /\ LoadEffects(beUsers[reopen.tok], token, currentTab, wardrobe, selectedWeek,
                             loading)
              /\ UNCHANGED <<token, storage>>
         ELSE /\ storage' = [storage EXCEPT !.token = NoToken]
              /\ token' = NoToken
              /\ reopen' = Idle
              /\ UNCHANGED <<user, showOnboarding, chatMessages, wardrobeLoads, loading,
                             plannedLoads>>
  /\ UNCHANGED <<isLogin, email, password, name, debugError, authReq, tabVars, wardrobe,
                 generatedOutfits, outfitsLoading, wardrobeTab, selectedCategoryFilter,
                 lastValidation, outfitsReq, addReq, delReq, validateReq, extractAlert,
                 extractReq, chatInput, chatImage, sendReq, freshReq, histLoads, selectedWeek,
                 weeklyOutfits, selectedOutfit, selectedOutfitDate, outfitOccasion, outfitEvent,
                 showManualOutfitBuilder, saveReq, onboardingData, now, tz, onboardReq, beVars>>

\* handleAppReopenBehavior after its read of lastSessionTime
ReopenBehavior ==
  /\ reopen.pc = "reopen"
  /\ LET lastSessionTime == storage.lastSessionTime
     IN  IF lastSessionTime = -1 \/ CurrentTime - lastSessionTime > SessionThreshold
           THEN /\ beChat' = IF MountToken # NoToken /\ TokenOk(MountToken)
                               THEN [beChat EXCEPT ![MountToken] = <<>>]
                               ELSE beChat
                /\ ClearChatState
                /\ UNCHANGED histLoads
           ELSE /\ histLoads' = HistCall(histLoads, MountToken)
                /\ UNCHANGED <<beChat, chatMessages, chatInput, chatImage>>
  /\ storage' = [storage EXCEPT !.lastSessionTime = CurrentTime]
  /\ reopen' = Idle
  /\ UNCHANGED <<user, token, loading, showOnboarding, isLogin, email, password, name,
                 debugError, authReq, tabVars, wardrobeVars, sendReq, freshReq, plannerVars,
                 onboardingData, now, tz, onboardReq,
                 beAccounts, beUsers, beWardrobe, beOutfits, bePlanned, nextId>>

\* ------------------------------------------------------- specifications
NoonUTC == InitWith({17}, {720}, {0}, {FullUser("u1")}, <<>>, {<<>>})

\* the wardrobe and validate tabs of a user who logs in
InitWardrobe == NoonUTC

NextWardrobe ==
  \/ SetEmail("u1")
  \/ SetPassword(GoodPassword)
  \/ HandleAuthStart
  \/ \E networkError \in BOOLEAN : AuthResponse(networkError)
  \/ \E t \in {"wardrobe", "validate"} : SetCurrentTab(t)
  \/ \E i \in 1..MaxLoads, failed \in BOOLEAN : WardrobeResponse(i, failed)
  \/ ShowOutfitsTab
  \/ ShowItemsTab
  \/ OutfitsServe
  \/ \E networkError \in BOOLEAN : OutfitsResponse(networkError)
  \/ \E granted \in BOOLEAN : AddStart(granted)
  \/ \E cancelled \in BOOLEAN : AddPicked(cancelled)
  \/ \E failed \in BOOLEAN : AddResponse(failed, "Tops")
  \/ \E itemId \in 1..MaxWardrobe : DeleteStart(itemId)
  \/ \E failed \in BOOLEAN : DeleteResponse(failed)
  \/ \E cancelled \in BOOLEAN : ValidateStart(cancelled)
  \/ \E failed \in BOOLEAN : ValidateResponse(failed)
  \/ ExtractDismiss
  \/ ExtractYes
  \/ \E failed \in BOOLEAN : ExtractResponse(failed, "Tops")

SpecWardrobe == InitWardrobe /\ [][NextWardrobe]_vars


\* the wardrobe tab of a logged-in user whose wardrobe has been loaded; the
\* wardrobe is any list of at most MaxWardrobe items
WardrobeLists ==
  UNION {{[i \in 1..k |-> [id |-> i, category |-> cs[i]]] : cs \in [1..k -> Categories]} :
           k \in 0..MaxWardrobe}

InitGrouping ==
  /\ user = FullUser("u1") /\ token = "u1" /\ currentTab = "wardrobe" /\ loading = FALSE
  /\ showOnboarding = FALSE
  /\ isLogin = TRUE /\ email = "" /\ password = "" /\ name = ""
  /\ debugError = "SUCCESS! Login completed"
  /\ wardrobe \in WardrobeLists /\ generatedOutfits = <<>> /\ outfitsLoading = FALSE
  /\ wardrobeTab = "items" /\ selectedCategoryFilter = AllFilter
  /\ lastValidation = "none" /\ showManualOutfitBuilder = FALSE
  /\ chatMessages = <<Greeting(user)>> /\ chatInput = "" /\ chatImage = FALSE
  /\ selectedWeek = 0 /\ weeklyOutfits = <<>>
  /\ selectedOutfit = [top |-> 0, bottom |-> 0, layering |-> 0, shoes |-> 0]
  /\ selectedOutfitDate = -1 /\ outfitOccasion = "" /\ outfitEvent = ""
  /\ onboardingData = NoUser
  /\ storage = [token |-> "u1", lastSessionTime |-> -1]
  /\ now = [day |-> 17, minute |-> 720] /\ tz = 0
  /\ beAccounts = {"u1"}
  /\ beUsers = [u \in Users |-> FullUser(u)]
  /\ beWardrobe = [u \in Users |-> IF u = "u1" THEN wardrobe ELSE <<>>]
  /\ beOutfits = [u \in Users |-> <<>>]
  /\ beChat = [u \in Users |-> <<>>]
  /\ bePlanned = [u \in Users |-> <<>>]
  /\ nextId = MaxWardrobe + 1
  /\ authReq = Idle /\ wardrobeLoads = <<>> /\ outfitsReq = Idle /\ addReq = Idle
  /\ delReq = Idle /\ validateReq = Idle /\ extractAlert = NoAlert /\ extractReq = Idle
  /\ sendReq = Idle /\ freshReq = Idle /\ histLoads = <<>> /\ plannedLoads = <<>>
  /\ saveReq = Idle /\ reopen = Idle /\ onboardReq = Idle

NextGrouping ==
  \/ \E c \in {AllFilter, "Other", "Tops"} : SetSelectedCategoryFilter(c)
  \/ \E itemId \in 1..MaxWardrobe : DeleteStart(itemId)
  \/ \E failed \in BOOLEAN : DeleteResponse(failed)
  \/ \E i \in 1..MaxLoads, failed \in BOOLEAN : WardrobeResponse(i, failed)

SpecGrouping == InitGrouping /\ [][NextGrouping]_vars


\* no handler is suspended at an await
Quiet ==
  /\ authReq.pc = "idle" /\ outfitsReq.pc = "idle" /\ addReq.pc = "idle" /\ delReq.pc = "idle"
  /\ validateReq.pc = "idle" /\ extractReq.pc = "idle" /\ sendReq.pc = "idle"
  /\ freshReq.pc = "idle" /\ saveReq.pc = "idle" /\ reopen.pc = "idle"
  /\ onboardReq.pc = "idle"
  /\ wardrobeLoads = <<>> /\ histLoads = <<>> /\ plannedLoads = <<>>

\* the chat tab, one handler at a time: the user acts when no request is in
\* flight, and every request can succeed, fail or throw
InitChat == NoonUTC

NextChat ==
  \/ Quiet /\ SetEmail("u1")
  \/ Quiet /\ SetPassword(GoodPassword)
  \/ Quiet /\ HandleAuthStart
  \/ Quiet /\ \E t \in {"chat", "validate"} : SetCurrentTab(t)
  \/ Quiet /\ \E text \in Texts : SetChatInput(text)
  \/ Quiet /\ SelectChatImage
  \/ Quiet /\ SendStart
  \/ Quiet /\ FreshStart
  \/ Quiet /\ ExtractDismiss
  \/ \E networkError \in BOOLEAN : AuthResponse(networkError)
  \/ \E data \in ChatDatas, lost \in BOOLEAN : ChatServe(data, lost)
  \/ ChatResponse
  \/ ChatNetworkError
  \/ SendChunk
  \/ \E serverError \in BOOLEAN : FreshServe(serverError)
  \/ FreshResponse
  \/ FreshThrow
  \/ \E i \in 1..MaxLoads, failed \in BOOLEAN : HistResponse(i, failed)

SpecChat == InitChat /\ [][NextChat]_vars



\* the planner of a user whose account already holds two wardrobe items and,
\* possibly, an outfit planned in an earlier session for the Sunday of the week
StoredItems == <<[id |-> 1, category |-> "Tops"], [id |-> 2, category |-> "Jeans"]>>

StoredPlans ==
  {<<>>, <<[date |-> 14, occasion |-> "Casual", event_name |-> "",
            items |-> [EmptyOutfit EXCEPT !.top = 1]]>>}

InitPlanner == InitWith({17}, {720}, {0}, {FullUser("u1")}, StoredItems, StoredPlans)

NextPlanner ==
  \/ Quiet /\ SetEmail("u1")
  \/ Quiet /\ SetPassword(GoodPassword)
  \/ Quiet /\ HandleAuthStart
  \/ \E networkError \in BOOLEAN : AuthResponse(networkError)
  \/ Quiet /\ SetCurrentTab("planner")
  \/ \E i \in 1..MaxLoads, failed \in BOOLEAN : WardrobeResponse(i, failed)
  \/ Quiet /\ \E w \in Weeks : SetSelectedWeek(w)
  \/ Quiet /\ \E i \in Cards : SelectDay(i)
  \/ Quiet /\ OpenManualBuilder
  \/ Quiet /\ \E k \in 1..Len(Slots), itemId \in 1..MaxWardrobe : ToggleItem(Slots[k], itemId)
  \/ Quiet /\ \E occasion \in Occasions : SetOutfitOccasion(occasion)
  \/ Quiet /\ \E event \in EventNames : SetOutfitEvent(event)
  \/ Quiet /\ SaveStart
  \/ \E failed \in BOOLEAN : SaveResponse(failed)
  \/ Quiet /\ \E date \in DOMAIN weeklyOutfits : DeletePlannedStart(date)
  \/ \E failed \in BOOLEAN : DeletePlannedResponse(failed)
  \/ \E i \in 1..MaxLoads : PlannedResponse(i, FALSE)

SpecPlanner == InitPlanner /\ [][NextPlanner]_vars

\* the week navigation of the planner at several times of day and UTC offsets
InitWeek == InitWith({17}, {60, 720, 1380}, {0 - 480, 0, 330}, {FullUser("u1")}, <<>>, {<<>>})

NextWeek ==
  \/ SetEmail("u1")
  \/ SetPassword(GoodPassword)
  \/ HandleAuthStart
  \/ \E networkError \in BOOLEAN : AuthResponse(networkError)
  \/ \E t \in {"planner", "chat"} : SetCurrentTab(t)
  \/ \E w \in Weeks : SetSelectedWeek(w)
  \/ \E i \in 1..MaxLoads, failed \in BOOLEAN : WardrobeResponse(i, failed)
  \/ \E i \in 1..MaxLoads, failed \in BOOLEAN : PlannedResponse(i, failed)

SpecWeek == InitWeek /\ [][NextWeek]_vars


\* sign-in, sign-up and onboarding, for accounts whose stored profile is
\* complete, new, completed with a field missing, or filled but not completed
Profiles ==
  {FullUser("u1"), NewUser("u1"), [FullUser("u1") EXCEPT !.age = FALSE],
   [FullUser("u1") EXCEPT !.onboarding_completed = FALSE]}

InitAuth == InitWith({17}, {720}, {0}, Profiles, <<>>, {<<>>})

NextAuth ==
  \/ Quiet /\ \E e \in {"", "u1", "u2"} : SetEmail(e)
  \/ Quiet /\ \E p \in {"", GoodPassword} : SetPassword(p)
  \/ Quiet /\ \E n \in {"", "Ann"} : SetName(n)
  \/ Quiet /\ \E b \in BOOLEAN : SetIsLogin(b)
  \/ Quiet /\ HandleAuthStart
  \/ \E networkError \in BOOLEAN : AuthResponse(networkError)
  \/ Quiet /\ \E field \in OnboardingFields : SetOnboardingData(field)
  \/ Quiet /\ CompleteOnboardingStart
  \/ \E failed \in BOOLEAN : OnboardingResponse(failed)
  \/ Quiet /\ Logout

SpecAuth == InitAuth /\ [][NextAuth]_vars

\* a user who signs in, chats, and closes and reopens the app
InitReopen == NoonUTC

NextReopen ==
  \/ Quiet /\ SetEmail("u1")
  \/ Quiet /\ SetPassword(GoodPassword)
  \/ Quiet /\ HandleAuthStart
  \/ \E networkError \in BOOLEAN : AuthResponse(networkError)
  \/ Quiet /\ SetChatInput("hi")
  \/ Quiet /\ SendStart
  \/ ChatServe(ChatData(1, TRUE, TRUE), FALSE)
  \/ ChatResponse
  \/ Quiet /\ \E t \in {"wardrobe", "chat"} : SetCurrentTab(t)
  \/ \E i \in 1..MaxLoads, failed \in BOOLEAN : WardrobeResponse(i, failed)
  \/ \E i \in 1..MaxLoads, failed \in BOOLEAN : HistResponse(i, failed)
  \/ Quiet /\ \E elapsed \in {SessionThreshold, SessionThreshold + 1} : AppRestart(elapsed)
  \/ \E networkError \in BOOLEAN : ReopenMeResponse(networkError)
  \/ ReopenBehavior

SpecReopen == InitReopen /\ [][NextReopen]_vars


\* the wardrobe tab of a user with two stored items: outfits are requested
\* while items are added and deleted, every handler free to interleave
InitOutfits == InitWith({17}, {720}, {0}, {FullUser("u1")}, StoredItems, {<<>>})

NextOutfits ==
  \/ SetEmail("u1")
  \/ SetPassword(GoodPassword)
  \/ HandleAuthStart
  \/ \E networkError \in BOOLEAN : AuthResponse(networkError)
  \/ SetCurrentTab("wardrobe")
  \/ \E i \in 1..MaxLoads, failed \in BOOLEAN : WardrobeResponse(i, failed)
  \/ ShowOutfitsTab
  \/ ShowItemsTab
  \/ OutfitsServe
  \/ \E networkError \in BOOLEAN : OutfitsResponse(networkError)
  \/ \E granted \in BOOLEAN : AddStart(granted)
  \/ \E cancelled \in BOOLEAN : AddPicked(cancelled)
  \/ \E failed \in BOOLEAN : AddResponse(failed, "Tops")
  \/ \E itemId \in 1..MaxWardrobe : DeleteStart(itemId)
  \/ \E failed \in BOOLEAN : DeleteResponse(failed)

SpecOutfits == InitOutfits /\ [][NextOutfits]_vars


\* two people share the device: the first account has a wardrobe and a planned
\* outfit, the second is registered from the sign-up form; one handler at a time
InitLogout ==
  InitWith({17}, {720}, {0}, {FullUser("u1")}, StoredItems, StoredPlans \ {<<>>})

NextLogout ==
  \/ Quiet /\ \E e \in Users : SetEmail(e)
  \/ Quiet /\ SetPassword(GoodPassword)
  \/ Quiet /\ SetName("Ann")
  \/ Quiet /\ \E b \in BOOLEAN : SetIsLogin(b)
  \/ Quiet /\ HandleAuthStart
  \/ \E networkError \in BOOLEAN : AuthResponse(networkError)
  \/ Quiet /\ \E field \in OnboardingFields : SetOnboardingData(field)
  \/ Quiet /\ CompleteOnboardingStart
  \/ \E failed \in BOOLEAN : OnboardingResponse(failed)
  \/ Quiet /\ Logout
  \/ Quiet /\ \E t \in Tabs : SetCurrentTab(t)
  \/ \E i \in 1..MaxLoads, failed \in BOOLEAN : WardrobeResponse(i, failed)
  \/ \E i \in 1..MaxLoads : PlannedResponse(i, FALSE)
  \/ Quiet /\ ShowOutfitsTab
  \/ Quiet /\ ShowItemsTab
  \/ OutfitsServe
  \/ \E networkError \in BOOLEAN : OutfitsResponse(networkError)
  \/ Quiet /\ \E cancelled \in BOOLEAN : ValidateStart(cancelled)
  \/ \E failed \in BOOLEAN : ValidateResponse(failed)
  \/ Quiet /\ ExtractDismiss

SpecLogout == InitLogout /\ [][NextLogout]_vars


\* the chat tab with every handler free to interleave: New Chat can be pressed
\* while a chat request is in flight and the tab can be left and reopened at
\* any moment; the user only writes a new message once the fresh session has
\* been set up and no history load is pending, so that every message sent
\* after New Chat belongs to the new session
InitFresh == NoonUTC

NextFresh ==
  \/ SetEmail("u1")
  \/ SetPassword(GoodPassword)
  \/ HandleAuthStart
  \/ \E networkError \in BOOLEAN : AuthResponse(networkError)
  \/ \E t \in {"chat", "validate"} : SetCurrentTab(t)
  \/ SetChatInput("hi")
  \/ freshReq.pc = "idle" /\ histLoads = <<>> /\ SendStart
  \/ \E data \in ChatDatas, lost \in BOOLEAN : ChatServe(data, lost)
  \/ ChatResponse
  \/ ChatNetworkError
  \/ SendChunk
  \/ FreshStart
  \/ \E serverError \in BOOLEAN : FreshServe(serverError)
  \/ FreshResponse
  \/ FreshThrow
  \/ \E i \in 1..MaxLoads, failed \in BOOLEAN : HistResponse(i, failed)

SpecFresh == InitFresh /\ [][NextFresh]_vars


\* a chat request beside the other users of the loading flag: the wardrobe
\* tab is opened and the extraction alert of a chat image is answered while
\* the request is in flight
InitSend == InitWith({17}, {720}, {0}, {FullUser("u1")}, StoredItems, {<<>>})

NextSend ==
  \/ SetEmail("u1")
  \/ SetPassword(GoodPassword)
  \/ HandleAuthStart
  \/ \E networkError \in BOOLEAN : AuthResponse(networkError)
  \/ \E t \in {"chat", "wardrobe"} : SetCurrentTab(t)
  \/ \E i \in 1..MaxLoads, failed \in BOOLEAN : WardrobeResponse(i, failed)
  \/ SetChatInput("hi")
  \/ SelectChatImage
  \/ SendStart
  \/ \E data \in ChatDatas, lost \in BOOLEAN : ChatServe(data, lost)
  \/ ChatResponse
  \/ ChatNetworkError
  \/ SendChunk
  \/ ExtractDismiss
  \/ ExtractYes
  \/ \E failed \in BOOLEAN : ExtractResponse(failed, "Tops")

SpecSend == InitSend /\ [][NextSend]_vars

\* ---------------------------------------------------------------- claims
\* C1: every successful wardrobe mutation made by the client (a POST
\* /api/wardrobe or DELETE /api/wardrobe/{item_id} that changes the backend
\* wardrobe) leaves the cached generatedOutfits empty.
C1_MutationClearsOutfits ==
  [][beWardrobe' # beWardrobe => generatedOutfits' = <<>>]_vars


\* C4: getGroupedWardrobe partitions the wardrobe by category (each item in
\* exactly one group, its own category or 'Other' when it has none, no empty
\* group); getFilteredWardrobe gives all groups for 'all' and otherwise only
\* the selected category's group, if there is one; getAvailableCategories
\* lists exactly the group keys, each once.
C4_GroupingPartitions ==
  LET grouped == getGroupedWardrobe
      filtered == getFilteredWardrobe
      available == getAvailableCategories
      keyOf(item) == IF item.category = NoCategory THEN "Other" ELSE item.category
      slots == {p \in (DOMAIN grouped) \X (1..Len(wardrobe)) : p[2] <= Len(grouped[p[1]])}
  IN  /\ \A i \in 1..Len(wardrobe) : \A c \in DOMAIN grouped :
            (\E j \in 1..Len(grouped[c]) : grouped[c][j] = wardrobe[i]) <=> c = keyOf(wardrobe[i])
      /\ \A i \in 1..Len(wardrobe) : keyOf(wardrobe[i]) \in DOMAIN grouped
      /\ Cardinality(slots) = Len(wardrobe)
      /\ \A c \in DOMAIN grouped : Len(grouped[c]) > 0
      /\ selectedCategoryFilter = AllFilter => filtered = grouped
      /\ selectedCategoryFilter # AllFilter =>
            /\ DOMAIN filtered = {selectedCategoryFilter} \cap DOMAIN grouped
            /\ \A c \in DOMAIN filtered : filtered[c] = grouped[c]
      /\ SeqRange(available) = DOMAIN grouped
      /\ Len(available) = Cardinality(DOMAIN grouped)

\* C4 witness: an uncategorised item and an item of category 'Other' share
\* the 'Other' group, and a filter on a category that has lost its last item
\* shows no group.
C4_Witness ==
  /\ \E i, j \in 1..Len(wardrobe) :
        /\ wardrobe[i].category = NoCategory /\ wardrobe[j].category = "Other"
        /\ "Other" \in DOMAIN getGroupedWardrobe
        /\ Len(getGroupedWardrobe["Other"]) = 2
  /\ selectedCategoryFilter = "Tops"
  /\ DOMAIN getFilteredWardrobe = {}


\* C5: on a successful chat response with a messages array of n chunks,
\* sendMessage appends exactly n AI messages, in array order, after the
\* user's own message, chunk i with id message_ids[i] when message_ids is
\* present; an old-format response (message only) appends exactly one.
C5_ChunksAppended ==
  [][LET data == sendReq.data
         chunks == IF data.hasMessages THEN data.messages ELSE <<data.message>>
         n == Len(chunks)
         isChunk(msg, i) ==
           /\ ~msg.is_user /\ msg.message = chunks[i]
           /\ data.hasIds => msg.id = data.message_ids[i]
         k == Len(chatMessages) - 1
     IN  /\ (sendReq.pc = "served" /\ sendReq.ok /\ ~sendReq.lost /\ sendReq'.pc # "served") =>
               /\ k >= 1 /\ chatMessages[k] = sendReq.message /\ chatMessages[k].is_user
               /\ Len(chatMessages') = k + (IF n >= 1 THEN 1 ELSE 0)
               /\ SubSeq(chatMessages', 1, k) = SubSeq(chatMessages, 1, k)
               /\ n >= 1 => isChunk(chatMessages'[k + 1], 1)
               /\ sendReq'.pc = (IF n > 1 THEN "chunks" ELSE "idle")
               /\ ~data.hasMessages => n = 1
         /\ (sendReq.pc = "chunks" /\ sendReq' # sendReq) =>
               /\ sendReq.i < n
               /\ isChunk(chatMessages[Len(chatMessages)], sendReq.i)
               /\ Len(chatMessages') = Len(chatMessages) + 1
               /\ SubSeq(chatMessages', 1, Len(chatMessages)) = chatMessages
               /\ isChunk(chatMessages'[Len(chatMessages')], sendReq.i + 1)
               /\ sendReq'.pc = (IF sendReq.i + 1 < n THEN "chunks" ELSE "idle")
               /\ sendReq'.pc = "chunks" => sendReq'.i = sendReq.i + 1
    ]_vars

\* C5 witness: a two-chunk response with message_ids has been appended whole
\* after the user's message.
C5_Witness ==
  /\ sendReq.pc = "idle" /\ Len(chatMessages) >= 3
  /\ LET m == Len(chatMessages)
     IN  /\ chatMessages[m - 2].is_user
         /\ chatMessages[m - 1] = [id |-> <<"srv", 1>>, user_id |-> "u1", is_user |-> FALSE,
                                   message |-> "c1"]
         /\ chatMessages[m] = [id |-> <<"srv", 2>>, user_id |-> "u1", is_user |-> FALSE,
                               message |-> "c2"]

\* C6: whenever startFreshChatSession ends (backend clear ok, error status,
\* throw, or no token) the chat is empty, the input is empty and no image is
\* attached; and when the backend clear succeeded the user's stored chat
\* history, which a following history load returns, is empty.
C6_FreshChatEmpty ==
  [][/\ ((freshReq.pc # "idle" /\ freshReq'.pc = "idle") \/ (FreshStart /\ token = NoToken)) =>
           (chatMessages' = <<>> /\ chatInput' = "" /\ chatImage' = FALSE)
     /\ (freshReq.pc = "served" /\ freshReq.ok /\ freshReq'.pc = "idle") =>
           beChat'[freshReq.tok] = <<>>
    ]_vars

\* C6 witness: a fresh session has ended with the chat empty although the
\* backend did not clear the stored history.
C6_Witness ==
  /\ MainApp /\ freshReq.pc = "idle" /\ sendReq.pc = "idle"
  /\ chatMessages = <<>> /\ chatInput = "" /\ ~chatImage
  /\ Len(beChat["u1"]) > 0


C3_QueryIsShownWeek ==
  \A i \in 1..Len(plannedLoads) :
    LET call == plannedLoads[i]
        weekDates == getWeekDates(call.week)
        shown == {formatCardDate(weekDates[k]) : k \in 1..DaysPerWeek}
    IN  /\ Cardinality(shown) = DaysPerWeek
        /\ call.start_date = formatCardDate(weekDates[1])
        /\ call.end_date = formatCardDate(weekDates[DaysPerWeek])
        /\ \A d \in shown : call.start_date <= d /\ d <= call.end_date
        /\ \A d \in call.start_date..call.end_date : d \in shown

\* C9: when a loadPlannedOutfits started by the planner effect completes,
\* every item reference of a returned outfit that exists in the user's backend
\* wardrobe is resolved to its item in weeklyOutfits.
C9_PlannedItemsResolved ==
  [][\A i \in 1..Len(plannedLoads) :
       (PlannedResponse(i, FALSE) /\ plannedLoads[i].tok \in beAccounts) =>
         LET call == plannedLoads[i]
             stored == bePlanned[call.tok]
             owned == {beWardrobe[call.tok][k].id : k \in 1..Len(beWardrobe[call.tok])}
         IN  \A j \in 1..Len(stored) :
               (call.start_date <= stored[j].date /\ stored[j].date <= call.end_date) =>
                 LET shown == weeklyOutfits'[stored[j].date].items
                     refs == {stored[j].items.top, stored[j].items.bottom,
                              stored[j].items.layering, stored[j].items.shoes}
                 IN  \A r \in refs \cap owned : \E k \in 1..Len(shown) : shown[k].id = r
    ]_vars


\* C7: handleAuth sends no request when email or password is empty or, in
\* sign-up mode, the name is empty, and then leaves token, user and storage
\* alone; after a request, token (state and storage) and user are set exactly
\* when the response is successful, and are unchanged on a failed response or
\* a network error; in every case loading ends false.
C7_AuthSetsSession ==
  [][/\ (HandleAuthStart /\ (email = "" \/ password = "" \/ (~isLogin /\ name = ""))) =>
          /\ authReq' = authReq /\ loading' = FALSE
          /\ token' = token /\ user' = user /\ storage' = storage
     /\ \A networkError \in BOOLEAN : AuthResponse(networkError) =>
          LET accepted == IF authReq.isLogin
                            THEN authReq.email \in beAccounts /\ authReq.password = "pw"
                            ELSE authReq.email \notin beAccounts
          IN  /\ loading' = FALSE
              /\ (~networkError /\ accepted) =>
                   /\ token' = authReq.email /\ storage'.token = token'
                   /\ user' = beUsers'[authReq.email] /\ user'.id = authReq.email
              /\ ~(~networkError /\ accepted) =>
                   token' = token /\ user' = user /\ storage' = storage
    ]_vars

\* C7 witness: a sign-up has succeeded and token, storage and user are set.
C7_Witness ==
  /\ user.id = "u2" /\ token = "u2" /\ storage.token = "u2" /\ ~loading
  /\ authReq.pc = "idle" /\ debugError = "SUCCESS! Login completed"

\* C8: for a logged-in user the onboarding screen is shown exactly when
\* onboarding_completed is false and one of name, age, profession, body_shape,
\* skin_tone is missing; a successful onboarding submission leaves the user
\* completed, in the main app on the chat tab; and a completed user is not
\* taken back to onboarding.
C8_OnboardingShown ==
  [][/\ user'.id # "none" =>
          (showOnboarding' <=>
             (~user'.onboarding_completed
                /\ \E f \in {"name", "age", "profession", "body_shape", "skin_tone"} : ~user'[f]))
     /\ (OnboardingResponse(FALSE) /\ onboardReq.tok \in beAccounts) =>
          /\ user'.id = onboardReq.tok /\ user'.onboarding_completed
          /\ ~showOnboarding' /\ currentTab' = "chat"
     /\ (user.id # "none" /\ user.onboarding_completed /\ user'.id = user.id) =>
          ~showOnboarding'
    ]_vars

\* C8 witness: a user who signed up has completed onboarding with answers
\* missing and is in the main app on the chat tab.
C8_Witness ==
  /\ user.id = "u2" /\ user.onboarding_completed /\ ~user.profession /\ user.age
  /\ ~showOnboarding /\ currentTab = "chat" /\ onboardReq.pc = "idle" /\ ~loading

\* C10: when handleAppReopenBehavior runs for a stored token the backend
\* accepted: with no lastSessionTime or more than SessionThreshold minutes
\* since it, the user's chat history is empty on the backend and in the
\* frontend; otherwise a load of the user's chat history is started; in both
\* cases lastSessionTime becomes the current time.
C10_ReopenClearsOrLoads ==
  [][(reopen.pc = "reopen" /\ reopen'.pc = "idle") =>
       LET last == storage.lastSessionTime
           current == (now.day * 1440) + now.minute
           newSession == last = -1 \/ current - last > 5
       IN  /\ storage'.lastSessionTime = current
           /\ newSession => (beChat'[reopen.tok] = <<>> /\ chatMessages' = <<>>)
           /\ ~newSession => histLoads' = Append(histLoads, reopen.tok)
    ]_vars


\* C11: once an outfits request and the wardrobe additions and deletions that
\* ran beside it have all completed, the outfits held in generatedOutfits are
\* not older than the wardrobe: each was generated from the items the backend
\* wardrobe holds now.
C11_OutfitsNotOlderThanWardrobe ==
  (user.id # "none" /\ token # "none" /\ outfitsReq.pc = "idle" /\ addReq.pc = "idle"
     /\ delReq.pc = "idle") =>
    \A k \in 1..Len(generatedOutfits) :
      generatedOutfits[k].items = {beWardrobe[token][j].id : j \in 1..Len(beWardrobe[token])}


\* C12: whoever is signed in and in the main app, with no request in flight,
\* the state on display holds nothing that was
\* loaded for another account: every chat message is the signed-in user's,
\* every wardrobe item, every item of a generated outfit and every planned
\* outfit is one the backend keeps for that user, and the last outfit
\* validation was made for that user.
C12_NoPreviousUserData ==
  (user.id # "none" /\ token # "none" /\ ~showOnboarding /\ Quiet) =>
    /\ \A k \in 1..Len(chatMessages) : chatMessages[k].user_id = user.id
    /\ \A k \in 1..Len(wardrobe) :
         \E j \in 1..Len(beWardrobe[token]) : beWardrobe[token][j] = wardrobe[k]
    /\ \A k \in 1..Len(generatedOutfits) :
         generatedOutfits[k].items \subseteq
           {beWardrobe[token][j].id : j \in 1..Len(beWardrobe[token])}
    /\ \A date \in DOMAIN weeklyOutfits :
         \E j \in 1..Len(bePlanned[token]) : bePlanned[token][j].date = date
    /\ lastValidation \in {"none", token}


\* C13: what a fresh chat session has cleared stays out of chatMessages: an
\* AI reply is only appended to a chat that still holds the message it
\* answers (the reply of a request that was in flight when the session was
\* started is dropped), and a history load into the emptied chat brings no
\* stored message back, whether the backend clear failed or not and however
\* the chat tab is left and reopened.
C13_FreshSessionStaysFresh ==
  [][/\ ((ChatResponse \/ SendChunk)
           /\ Len(chatMessages') > Len(WithoutIndicators(chatMessages))) =>
          \E k \in 1..Len(chatMessages') : chatMessages'[k] = sendReq.message
     /\ ((\E i \in 1..MaxLoads, failed \in BOOLEAN : HistResponse(i, failed))
           /\ chatMessages = <<>>) =>
          chatMessages' = <<>>]_vars


\* C14: while a chat request started by sendMessage is in flight (sent,
\* handled by the backend, or appending its chunks), the send control of the
\* chat screen is not enabled for a message that has been typed: loading is
\* still true, whatever the other handlers that set and reset loading have
\* done in between.
C14_SendDisabledWhileInFlight ==
  (sendReq.pc # "idle" /\ user.id # "none" /\ ~showOnboarding /\ currentTab = "chat"
     /\ (Trim(chatInput) # "" \/ chatImage)) => loading


====
